---- MODULE Spec2Model ----
(***************************************************************************)
(* Model of the LinkedIn post generator front end: the App component of    *)
(* src/frontend/src/App.tsx (handleSubmit, the server-sent-event stream    *)
(* consumer, and handleCancel).                                            *)
(*                                                                         *)
(* Text is a sequence of one-character strings.  The alphabet keeps the    *)
(* characters the consumer looks at ("\n", " ", the prefix "data" ":")     *)
(* and stands one letter for each JSON text the server can put in a data   *)
(* line.  Bytes "M1" "M2" are the two bytes of one multi-byte character.   *)
(*                                                                         *)
(* Scheduling is the JavaScript event loop: a user click or a network      *)
(* callback is a task, the code after an await whose promise has settled   *)
(* is a microtask, and no task starts while a microtask is due.            *)
(*                                                                         *)
(* call[i] holds the locals and the position of one activation of          *)
(* handleSubmit; an activation that has returned frees its entry.          *)
(*                                                                         *)
(* card is the state of the PostCard of the first post                     *)
(* (components/PostCard.tsx: the edit form, saveEdit, runLlmEdit); form    *)
(* and request are the fields of components/PostInputForm.tsx that the     *)
(* model follows and the last data passed to onSubmit.  Spec and FairSpec  *)
(* are the stream consumer alone, SpecCard adds the card of a generated    *)
(* post, SpecForm is the form in front of the consumer.                    *)
(***************************************************************************)
EXTENDS Integers, Sequences, FiniteSets, TLC

\* ------------------------------------------------------------------ bounds
MaxFrames == 2
MaxCalls == 2

\* ---------------------------------------------------------------- alphabet
LF == "\n"
SP == " "
DATA == "data"
COLON == ":"
FFFD == "?"

\* JSON texts of the wire format, one letter each
JsonValues == {"P", "M", "C", "G", "H", "g", "E", "U", "N"}

NoMessage == <<>>
NoPayload == ""

\* ------------------------------------------------------------ JSON values
JsonObject(t, m, p) == [json |-> "object", type |-> t, message |-> m, payload |-> p]

JsonNull == [json |-> "null", type |-> "", message |-> NoMessage, payload |-> NoPayload]

ValueOf(tok) ==
  CASE tok = "P" -> JsonObject("PROGRESS", <<"searching">>, NoPayload)
    [] tok = "M" -> JsonObject("PROGRESS", <<"multibyte">>, NoPayload)
    [] tok = "C" -> JsonObject("COMPLETE", NoMessage, NoPayload)
    [] tok = "G" -> JsonObject("POST_GENERATED", NoMessage, "post")
    [] tok = "H" -> JsonObject("POST_GENERATED", NoMessage, "post2")
    [] tok = "g" -> JsonObject("POST_GENERATED", NoMessage, NoPayload)
    [] tok = "E" -> JsonObject("ERROR", <<"generation failed">>, NoPayload)
    [] tok = "U" -> JsonObject("HEARTBEAT", NoMessage, NoPayload)
    [] OTHER     -> JsonNull

\* ------------------------------------------------------- string functions
RECURSIVE IndexOf2(_, _, _)
\* first i >= from with s[i] = a and s[i+1] = a, or 0
IndexOf2(s, a, from) ==
  IF from + 1 > Len(s) THEN 0
  ELSE IF s[from] = a /\ s[from + 1] = a THEN from
  ELSE IndexOf2(s, a, from + 1)

RECURSIVE IndexOf1(_, _, _)
IndexOf1(s, a, from) ==
  IF from > Len(s) THEN 0
  ELSE IF s[from] = a THEN from
  ELSE IndexOf1(s, a, from + 1)

RECURSIVE SplitBlank(_)
\* String.prototype.split("\n\n")
SplitBlank(s) ==
  LET i == IndexOf2(s, LF, 1) IN
  IF i = 0 THEN <<s>>
  ELSE <<SubSeq(s, 1, i - 1)>> \o SplitBlank(SubSeq(s, i + 2, Len(s)))

RECURSIVE SplitLines(_)
\* String.prototype.split("\n")
SplitLines(s) ==
  LET i == IndexOf1(s, LF, 1) IN
  IF i = 0 THEN <<s>>
  ELSE <<SubSeq(s, 1, i - 1)>> \o SplitLines(SubSeq(s, i + 1, Len(s)))

IsSpace(c) == c \in {SP, LF}

RECURSIVE TrimStart(_)
TrimStart(s) ==
  IF s # <<>> /\ IsSpace(Head(s)) THEN TrimStart(Tail(s)) ELSE s

RECURSIVE TrimEnd(_)
TrimEnd(s) ==
  IF s # <<>> /\ IsSpace(s[Len(s)]) THEN TrimEnd(SubSeq(s, 1, Len(s) - 1)) ELSE s

\* String.prototype.trim
Trim(s) == TrimEnd(TrimStart(s))

\* l.startsWith("data:")
StartsWithData(l) == Len(l) >= 2 /\ l[1] = DATA /\ l[2] = COLON

\* l.replace(/^data:\s?/, "")
StripData(l) ==
  IF ~StartsWithData(l) THEN l
  ELSE IF Len(l) >= 3 /\ IsSpace(l[3]) THEN SubSeq(l, 4, Len(l))
  ELSE SubSeq(l, 3, Len(l))

RECURSIVE JoinLF(_)
\* Array.prototype.join("\n")
JoinLF(ls) ==
  IF ls = <<>> THEN <<>>
  ELSE IF Len(ls) = 1 THEN ls[1]
  ELSE ls[1] \o <<LF>> \o JoinLF(Tail(ls))

DataLinesUntrimmed(part) == SelectSeq(SplitLines(part), StartsWithData)

\* part.split("\n").map(trim).filter(startsWith("data:"))
DataLines(part) ==
  LET lines == SplitLines(part)
      trimmed == [k \in 1..Len(lines) |-> Trim(lines[k])]
  IN SelectSeq(trimmed, StartsWithData)

\* dataLines.map(strip).join("\n")
JsonText(part) ==
  LET dl == DataLines(part) IN
  JoinLF([k \in 1..Len(dl) |-> StripData(dl[k])])

\* JSON.parse: whitespace around one value; anything else throws SyntaxError
JsonParse(text) ==
  LET body == Trim(text) IN
  IF Len(body) = 1 /\ body[1] \in JsonValues
  THEN [ok |-> TRUE, value |-> ValueOf(body[1])]
  ELSE [ok |-> FALSE, value |-> JsonNull]

\* TextDecoder.decode(value, {stream: true}); held is the byte kept from the
\* previous call.  Result: the text and the byte kept for the next call.
RECURSIVE Decode(_, _)
Decode(held, bytes) ==
  IF bytes = <<>> THEN [text |-> <<>>, held |-> held]
  ELSE LET b == Head(bytes) IN
    IF held = "M1" THEN
      IF b = "M2"
      THEN LET r == Decode("", Tail(bytes)) IN [text |-> <<"M">> \o r.text, held |-> r.held]
      ELSE LET r == Decode("", bytes) IN [text |-> <<FFFD>> \o r.text, held |-> r.held]
    ELSE IF b = "M1" THEN Decode("M1", Tail(bytes))
    ELSE IF b = "M2"
      THEN LET r == Decode("", Tail(bytes)) IN [text |-> <<FFFD>> \o r.text, held |-> r.held]
    ELSE LET r == Decode("", Tail(bytes)) IN [text |-> <<b>> \o r.text, held |-> r.held]

\* ------------------------------------------------------------- wire format
Frame(tok) == <<DATA, COLON, SP, tok, LF, LF>>

Frames ==
  { Frame("P"), Frame("C"), Frame("E"), Frame("g"), Frame("x"),
    Frame("U"), Frame("N"), Frame("H"),
    <<DATA, COLON, "G", LF, LF>>,
    <<DATA, COLON, SP, "M1", "M2", LF, LF>>,
    <<COLON, "k", LF, LF>>,
    <<SP, DATA, COLON, "P", LF, DATA, COLON, LF, LF>>,
    <<DATA, COLON, SP, "P">>,
    <<LF>> }

RECURSIVE StreamsOf(_)
\* every concatenation of at most n frames
StreamsOf(n) ==
  IF n = 0 THEN {<<>>}
  ELSE LET S == StreamsOf(n - 1) IN S \cup {s \o f : s \in S, f \in Frames}

Streams == StreamsOf(MaxFrames)

\* responses of the generate endpoint: status, res.ok, res.body present
Responses ==
  { [status |-> "200", ok |-> TRUE,  hasBody |-> TRUE],
    [status |-> "500", ok |-> FALSE, hasBody |-> TRUE],
    [status |-> "204", ok |-> TRUE,  hasBody |-> FALSE] }

BodyTexts == {"overloaded", ""}

\* ------------------------------------------------------------------ events
ParseFailure(e) == JsonObject("ERROR", <<"Failed to parse event: ", e>>, NoPayload)

StreamAborted == JsonObject("PROGRESS", <<"Stream aborted.">>, NoPayload)

ThrownError(e) == JsonObject("ERROR", <<e>>, NoPayload)

ServerErrorNoStatus(status, text) ==
  JsonObject("ERROR", <<"Server error: ", text>>, NoPayload)

\* `Server error: ${res.status} ${text}`
ServerError(status, text) ==
  JsonObject("ERROR", <<"Server error: ", status, " ", text>>, NoPayload)

IsTerminalUnlessKnown(v) == v.type \notin {"PROGRESS", "POST_GENERATED"}

\* parsed.type === "COMPLETE" || parsed.type === "ERROR"
IsTerminal(v) == v.type \in {"COMPLETE", "ERROR"}

SkippedNever(part) == FALSE

\* if (dataLines.length === 0) continue
Skipped(part) == DataLines(part) = <<>>

OnParseErrorBreak(ev, po) ==
  [events |-> Append(ev, ParseFailure("SyntaxError")), posts |-> po, terminal |-> TRUE]

\* the catch around JSON.parse
OnParseError(ev, po) ==
  [events |-> Append(ev, ParseFailure("SyntaxError")), posts |-> po, terminal |-> FALSE]

PushPostAlways(po, v) ==
  IF v.type = "POST_GENERATED" THEN Append(po, v.payload) ELSE po

PushPostFront(po, v) ==
  IF v.type = "POST_GENERATED" /\ v.payload # NoPayload THEN <<v.payload>> \o po ELSE po

\* if (parsed.type === "POST_GENERATED" && parsed.payload) pushPost(...)
PushPost(po, v) ==
  IF v.type = "POST_GENERATED" /\ v.payload # NoPayload THEN Append(po, v.payload) ELSE po

ReportedAsError(err) == ThrownError(err)

\* the event the outer catch pushes for an exception named err
Reported(err) == IF err = "AbortError" THEN StreamAborted ELSE ThrownError(err)

PopLastDropped(parts) == <<>>

\* buffer = parts.pop() || ""
PopLast(parts) == parts[Len(parts)]

\* every segment a response body can be cut into
Segments ==
  UNION { {SplitBlank(Decode("", b).text)[k] :
             k \in 1..Len(SplitBlank(Decode("", b).text))} : b \in Streams }

\* JSON.parse of the data: lines of each segment, tabulated
ParseTable == [part \in Segments |-> JsonParse(JsonText(part))]

\* JSON.parse(jsonText) for the segment part
Parse(part) ==
  IF part \in Segments THEN ParseTable[part] ELSE JsonParse(JsonText(part))

OnPartPrepends(ev, po, part) ==
  IF Skipped(part) THEN [events |-> ev, posts |-> po, terminal |-> FALSE]
  ELSE LET r == Parse(part) IN
    IF ~r.ok THEN OnParseError(ev, po)
    ELSE [events |-> <<r.value>> \o ev,
          posts |-> PushPost(po, r.value),
          terminal |-> IsTerminal(r.value)]

\* one iteration of the for loop over the segments: the lists after it and
\* whether it left the loop through the break
OnPart(ev, po, part) ==
  IF Skipped(part) THEN [events |-> ev, posts |-> po, terminal |-> FALSE]
  ELSE LET r == Parse(part) IN
    IF ~r.ok THEN OnParseError(ev, po)
    ELSE IF r.value.json = "null"
    THEN [events |-> Append(Append(ev, r.value), ParseFailure("TypeError")),
          posts |-> po, terminal |-> FALSE]
    ELSE [events |-> Append(ev, r.value),
          posts |-> PushPost(po, r.value),
          terminal |-> IsTerminal(r.value)]

RECURSIVE RunParts(_, _, _)
\* the for loop over the segments of one chunk
RunParts(ev, po, parts) ==
  IF parts = <<>> THEN [events |-> ev, posts |-> po, terminal |-> FALSE]
  ELSE LET r == OnPart(ev, po, Head(parts)) IN
    IF r.terminal THEN r ELSE RunParts(r.events, r.posts, Tail(parts))

\* the consumer run on bytes arriving as one chunk: lists and buffer after it
WholeRun(bytes) ==
  LET split == SplitBlank(Decode("", bytes).text)
      r == RunParts(<<>>, <<>>, SubSeq(split, 1, Len(split) - 1))
  IN [events |-> r.events, posts |-> r.posts, buffer |-> split[Len(split)]]

\* ------------------------------------------------------------------ PostCard
\* the GeneratedPost a payload stands for
PostOf(p) ==
  CASE p = "post"  -> [text |-> "orig", hashtags |-> << <<"ai">> >>, cta_suggestion |-> "follow"]
    [] p = "post2" -> [text |-> "second", hashtags |-> <<>>, cta_suggestion |-> ""]
    [] OTHER       -> [text |-> "", hashtags |-> <<>>, cta_suggestion |-> ""]

RECURSIVE SplitComma(_)
\* String.prototype.split(",")
SplitComma(s) ==
  LET i == IndexOf1(s, ",", 1) IN
  IF i = 0 THEN <<s>>
  ELSE <<SubSeq(s, 1, i - 1)>> \o SplitComma(SubSeq(s, i + 1, Len(s)))

NonEmpty(s) == s # <<>>

\* editedHashtags.split(",").map(trim).filter(Boolean)
ParseHashtags(s) ==
  LET pieces == SplitComma(s) IN
  SelectSeq([k \in 1..Len(pieces) |-> Trim(pieces[k])], NonEmpty)

RECURSIVE JoinComma(_)
\* (hashtags || []).join(", ")
JoinComma(tags) ==
  IF tags = <<>> THEN <<>>
  ELSE IF Len(tags) = 1 THEN tags[1]
  ELSE tags[1] \o <<",", SP>> \o JoinComma(Tail(tags))

\* what the user can type into the fields of the edit form
TextInputs == {"typed", ""}
HashtagInputs == {<<>>, <<"ai", ",", SP, "ml">>, <<SP, "ml", ",", ",">>}
CTAInputs == {"join", ""}
InstructionInputs == {<<>>, <<SP>>, <<"shorten">>}

\* replacement posts the edit endpoint can return
UpdatedPosts == {[text |-> "llm", hashtags |-> << <<"ml">> >>, cta_suggestion |-> ""]}

\* messages of the exceptions a rejected fetch, text() or json() carries
RejectMessages == {"Failed to fetch", ""}

\* no card is mounted; committed records, for the properties, the text of the
\* last version the card committed (mount, saveEdit, applied LLM edit)
NoCard ==
  [mounted |-> FALSE, isEditing |-> FALSE, editedText |-> "", editedHashtags |-> <<>>,
   editedCTA |-> "", localToast |-> "", llmInstruction |-> <<>>, llmRunning |-> FALSE,
   llm |-> "idle", timers |-> 0, committed |-> ""]

\* the state of a card when it mounts for post
MountCard(post) ==
  [NoCard EXCEPT !.mounted = TRUE,
                 !.editedText = post.text,
                 !.editedHashtags = JoinComma(post.hashtags),
                 !.editedCTA = post.cta_suggestion,
                 !.committed = post.text]

\* showLocalToast: the message, and one more timer that will clear it;
\* timers = 2 stands for two or more pending timers
ShowLocalToast(c, msg) ==
  [c EXCEPT !.localToast = msg, !.timers = IF @ < 2 THEN @ + 1 ELSE @]

\* onUpdate?.(p): App renders PostCard without an onUpdate prop
OnUpdate(po, p) == po

CatchMessageRaw(m, fallback) == m

\* e?.message || fallback
CatchMessage(m, fallback) == IF m = "" THEN fallback ELSE m

\* ------------------------------------------------------------- PostInputForm
Digit ==
  ("0" :> 0) @@ ("1" :> 1) @@ ("2" :> 2) @@ ("3" :> 3) @@ ("4" :> 4) @@
  ("5" :> 5) @@ ("6" :> 6) @@ ("7" :> 7) @@ ("8" :> 8) @@ ("9" :> 9)

RECURSIVE ParseDigits(_, _)
\* the value of the digits s starts with, after the digits read as acc
ParseDigits(s, acc) ==
  IF s # <<>> /\ Head(s) \in DOMAIN Digit
  THEN ParseDigits(Tail(s), 10 * acc + Digit[Head(s)])
  ELSE acc

\* parseInt(s, 10): leading white space, a sign, then digits; NaN without digits
ParseInt(s) ==
  LET t == TrimStart(s)
      neg == t # <<>> /\ Head(t) = "-"
      u == IF t # <<>> /\ Head(t) \in {"-", "+"} THEN Tail(t) ELSE t
  IN IF u = <<>> \/ Head(u) \notin DOMAIN Digit
     THEN [nan |-> TRUE, n |-> 0]
     ELSE [nan |-> FALSE, n |-> IF neg THEN 0 - ParseDigits(u, 0) ELSE ParseDigits(u, 0)]

\* Math.max(1, parseInt(e.target.value, 10) || 1)
PostCountOf(v) ==
  LET r == ParseInt(v)
      n == IF r.nan \/ r.n = 0 THEN 1 ELSE r.n
  IN IF n < 1 THEN 1 ELSE n

\* what the user can type into the fields of the form
TopicInputs == {<<>>, <<SP>>, <<"AI">>}
ToneInputs == {"Professional", "Any"}
PostCountInputs ==
  {<<>>, <<"0">>, <<"-", "2">>, <<"2">>, <<"5">>, <<"6">>, <<"4", "0">>,
   <<"2", ".", "5">>, <<"1", "e", "1">>}
EmojiInputs == {<<"0">>, <<"1">>, <<"2">>, <<"3">>}

\* the useState initialisers of the form
DefaultForm ==
  [topic |-> <<>>, tone |-> "Professional", postCount |-> 3, emojiLevel |-> 1]

\* nothing has been passed to onSubmit
NoRequest == [topic |-> <<>>, tone |-> "", post_count |-> 0, emoji_level |-> 0]

\* requestData of the form's handleSubmit
RequestData(f) ==
  [topic |-> f.topic,
   tone |-> IF f.tone = "Any" THEN "undefined" ELSE f.tone,
   post_count |-> f.postCount,
   emoji_level |-> f.emojiLevel]

FormValidNoMax(f) == f.topic # <<>> /\ f.postCount >= 1

\* constraint validation of the form at submission: topic is required, the
\* post count field has min="1" max="5"
FormValid(f) == f.topic # <<>> /\ f.postCount >= 1 /\ f.postCount <= 5

\* ----------------------------------------------------------- ImageGenerator
\* what the user can type into the prompt field
PromptInputs == {<<>>, <<SP>>, <<"cat">>}

\* bodies of a 2xx answer of /generate-image, as res.json() delivers them:
\* not JSON, the literal null, or an object; an absent optional field and
\* an empty one are both "", which is all that || and && distinguish
ImageBodies ==
  { [json |-> "invalid", success |-> FALSE, image_data |-> "",    error_message |-> <<>>],
    [json |-> "null",    success |-> FALSE, image_data |-> "",    error_message |-> <<>>],
    [json |-> "object",  success |-> TRUE,  image_data |-> "png", error_message |-> <<>>],
    [json |-> "object",  success |-> TRUE,  image_data |-> "",    error_message |-> <<>>],
    [json |-> "object",  success |-> FALSE, image_data |-> "",    error_message |-> <<"quota">>],
    [json |-> "object",  success |-> FALSE, image_data |-> "",    error_message |-> <<>>],
    [json |-> "object",  success |-> FALSE, image_data |-> "png", error_message |-> <<"unsafe">>] }

NoBody == [json |-> "none", success |-> FALSE, image_data |-> "", error_message |-> <<>>]

\* error and response are null (<<>>) or hold one value
NoError == <<>>

NoResponse == <<>>

\* an activation of handleSubmit: the await it is at, the state of the
\* answer's body, the rejection its awaited promise carries
ImgFresh ==
  [pc |-> "idle", status |-> "", body |-> "none", text |-> "", data |-> NoBody,
   rej |-> "", msg |-> <<>>]

ImgDone == [ImgFresh EXCEPT !.pc = "done"]

\* the component after mounting
NoImage ==
  [prompt |-> <<>>, response |-> NoResponse, loading |-> FALSE, error |-> NoError,
   toastMessage |-> "", showToast |-> FALSE, timers |-> 0, abortRef |-> 0,
   req |-> [i \in 1..MaxCalls |-> ImgFresh]]

\* showLocalToast: the message, shown, and one more timer that will hide it;
\* timers = 2 stands for two or more pending timers
ImgShowLocalToast(im, msg) ==
  [im EXCEPT !.toastMessage = msg, !.showToast = TRUE,
             !.timers = IF @ < 2 THEN @ + 1 ELSE @]

\* the catch block: setError by the name of what was thrown
ImgCatch(name, msg) ==
  IF name = "AbortError" THEN << <<"Image generation aborted.">> >> ELSE <<msg>>

\* ------------------------------------------------------------------- state
VARIABLES isLoading, events, posts, abortRef, call, card, form, request, image

vars == <<isLoading, events, posts, abortRef, call, card, form, request, image>>

\* activations of handleSubmit that can exist at once
Calls == 1..MaxCalls

Null == 0

Fresh ==
  [pc |-> "idle", aborted |-> "no", err |-> "", status |-> "", stream |-> <<>>,
   pos |-> 0, body |-> "none", held |-> "", buffer |-> <<>>, parts |-> <<>>]

Finished == [Fresh EXCEPT !.pc = "done"]

Init ==
  /\ isLoading = FALSE
  /\ events = <<>>
  /\ posts = <<>>
  /\ abortRef = Null
  /\ call = [i \in Calls |-> Fresh]
  /\ card = NoCard
  /\ form = DefaultForm
  /\ request = NoRequest
  /\ image = NoImage

\* --------------------------------------------------------------- scheduling
Awaiting(i) == call[i].pc \in {"fetch", "text", "read"}

MicrotaskDueNever(i) == FALSE

MicrotaskDueWhileRunning(i) == call[i].pc \in {"for", "catch"}

\* the promise call i awaits has settled, or call i is running
MicrotaskDue(i) ==
  \/ call[i].pc \in {"for", "catch"}
  \/ call[i].pc = "fetch" /\ call[i].aborted # "no"
  \/ call[i].pc = "text" /\ call[i].body # "readable"
  \/ call[i].pc = "read" /\ call[i].body # "readable"

NoMicrotask == \A i \in Calls : ~MicrotaskDue(i)

\* AbortController.abort(): the signal, and the response body if readable
Abort(c, who) ==
  IF c.aborted # "no" THEN c
  ELSE [c EXCEPT !.aborted = who,
                 !.body = IF @ = "readable" THEN "errored" ELSE @]

\* ------------------------------------------------------------ user actions
\* a handleSubmit activation that has not started, or has returned
IsFree(i) == call[i].pc \in {"idle", "done"}

SubmitWhileLoading ==
  /\ NoMicrotask
  /\ \E i \in Calls :
       /\ IsFree(i)
       /\ \A j \in Calls : IsFree(j) => i <= j
       /\ abortRef' = i
       /\ call' = [call EXCEPT ![i] = [Fresh EXCEPT !.pc = "fetch"]]
  /\ events' = <<>>
  /\ posts' = <<>>
  /\ isLoading' = TRUE
  /\ card' = NoCard
  /\ UNCHANGED <<form, request, image>>

SubmitKeepsLists ==
  /\ ~isLoading
  /\ NoMicrotask
  /\ \E i \in Calls :
       /\ IsFree(i)
       /\ \A j \in Calls : IsFree(j) => i <= j
       /\ abortRef' = i
       /\ call' = [call EXCEPT ![i] = [Fresh EXCEPT !.pc = "fetch"]]
  /\ isLoading' = TRUE
  /\ UNCHANGED <<events, posts>>
  /\ card' = NoCard
  /\ UNCHANGED <<form, request, image>>

\* handleSubmit up to its first await; the cards of the previous posts
\* unmount with the post list
HandleSubmit ==
  /\ NoMicrotask
  /\ \E i \in Calls :
       /\ IsFree(i)
       /\ \A j \in Calls : IsFree(j) => i <= j
       /\ abortRef' = i
       /\ call' = [call EXCEPT ![i] = [Fresh EXCEPT !.pc = "fetch"]]
  /\ events' = <<>>
  /\ posts' = <<>>
  /\ isLoading' = TRUE
  /\ card' = NoCard

\* the submit button (enabled while isLoading is false) of a form whose
\* fields are not looked at
Submit ==
  /\ ~isLoading
  /\ HandleSubmit
  /\ UNCHANGED <<form, request, image>>

CancelNoAbort ==
  /\ isLoading
  /\ NoMicrotask
  /\ isLoading' = FALSE
  /\ UNCHANGED <<events, posts, abortRef, call>>
  /\ UNCHANGED <<card, form, request, image>>

\* the Cancel button (rendered while isLoading is true) and handleCancel
Cancel ==
  /\ isLoading
  /\ NoMicrotask
  /\ call' = IF abortRef # Null
             THEN [call EXCEPT ![abortRef] = Abort(@, "user")]
             ELSE call
  /\ isLoading' = FALSE
  /\ UNCHANGED <<events, posts, abortRef>>
  /\ UNCHANGED <<card, form, request, image>>

\* --------------------------------------------------------- network callbacks
FetchResponse(i) ==
  /\ NoMicrotask
  /\ call[i].pc = "fetch"
  /\ \E r \in Responses :
       IF ~r.ok \/ ~r.hasBody
       THEN call' = [call EXCEPT ![i].pc = "text", ![i].status = r.status,
                                 ![i].body = IF r.hasBody THEN "readable" ELSE "none"]
       ELSE \E s \in Streams :
              call' = [call EXCEPT ![i].pc = "read", ![i].status = r.status,
                                   ![i].body = "readable", ![i].stream = s]
  /\ UNCHANGED <<isLoading, events, posts, abortRef>>
  /\ UNCHANGED <<card, form, request, image>>

NetworkError(i) ==
  /\ NoMicrotask
  /\ Awaiting(i)
  /\ call' = [call EXCEPT ![i].pc = "catch", ![i].err = "TypeError",
                          ![i].body = IF @ = "readable" THEN "errored" ELSE @]
  /\ UNCHANGED <<isLoading, events, posts, abortRef>>
  /\ UNCHANGED <<card, form, request, image>>

TextResolve(i) ==
  /\ call[i].pc = "text"
  /\ call[i].body \in {"none", "readable"}
  /\ call[i].body = "readable" => NoMicrotask
  /\ \E t \in BodyTexts :
       /\ call[i].body = "none" => t = ""
       /\ events' = Append(events, ServerError(call[i].status, t))
  /\ isLoading' = FALSE
  /\ abortRef' = Null
  /\ call' = [call EXCEPT ![i] = Finished]
  /\ UNCHANGED posts
  /\ UNCHANGED <<card, form, request, image>>

ReadChunk(i) ==
  /\ NoMicrotask
  /\ call[i].pc = "read"
  /\ \E n \in 1..(Len(call[i].stream) - call[i].pos), fin \in BOOLEAN :
       /\ fin => call[i].pos + n = Len(call[i].stream)
       /\ LET value == SubSeq(call[i].stream, call[i].pos + 1, call[i].pos + n)
              d == Decode(call[i].held, value)
              split == SplitBlank(call[i].buffer \o d.text)
          IN call' = [call EXCEPT ![i].pc = "for",
                                  ![i].pos = @ + n,
                                  ![i].held = d.held,
                                  ![i].parts = SubSeq(split, 1, Len(split) - 1),
                                  ![i].buffer = PopLast(split),
                                  ![i].body = IF fin THEN "closed" ELSE @]
  /\ UNCHANGED <<isLoading, events, posts, abortRef>>
  /\ UNCHANGED <<card, form, request, image>>

StreamClose(i) ==
  /\ NoMicrotask
  /\ call[i].pc = "read"
  /\ call[i].pos = Len(call[i].stream)
  /\ call' = [call EXCEPT ![i].body = "closed"]
  /\ UNCHANGED <<isLoading, events, posts, abortRef>>
  /\ UNCHANGED <<card, form, request, image>>

\* ---------------------------------------------------------------- microtasks
ForStepNoBreak(i) ==
  /\ call[i].pc = "for"
  /\ call[i].parts # <<>>
  /\ LET r == OnPart(events, posts, Head(call[i].parts)) IN
       /\ events' = r.events
       /\ posts' = r.posts
       /\ IF r.terminal
          THEN /\ isLoading' = FALSE
               /\ call' = [call EXCEPT ![i] = [Abort(@, "event") EXCEPT !.parts = Tail(@)]]
          ELSE /\ isLoading' = isLoading
               /\ call' = [call EXCEPT ![i].parts = Tail(@)]
  /\ UNCHANGED abortRef
  /\ UNCHANGED <<card, form, request, image>>

ForStep(i) ==
  /\ call[i].pc = "for"
  /\ call[i].parts # <<>>
  /\ LET r == OnPart(events, posts, Head(call[i].parts)) IN
       /\ events' = r.events
       /\ posts' = r.posts
       /\ IF r.terminal
          THEN /\ isLoading' = FALSE
               /\ call' = [call EXCEPT ![i] = [Abort(@, "event") EXCEPT !.parts = <<>>, !.pc = "read"]]
          ELSE /\ isLoading' = isLoading
               /\ call' = [call EXCEPT ![i].parts = Tail(@)]
  /\ UNCHANGED abortRef
  /\ UNCHANGED <<card, form, request, image>>

ForEnd(i) ==
  /\ call[i].pc = "for"
  /\ call[i].parts = <<>>
  /\ call' = [call EXCEPT ![i].pc = "read"]
  /\ UNCHANGED <<isLoading, events, posts, abortRef>>
  /\ UNCHANGED <<card, form, request, image>>

ReadDoneSynthesizes(i) ==
  /\ call[i].pc = "read"
  /\ call[i].body = "closed"
  /\ events' = Append(events, ValueOf("C"))
  /\ isLoading' = FALSE
  /\ abortRef' = Null
  /\ call' = [call EXCEPT ![i] = Finished]
  /\ UNCHANGED posts
  /\ UNCHANGED <<card, form, request, image>>

ReadDoneFlushes(i) ==
  /\ call[i].pc = "read"
  /\ call[i].body = "closed"
  /\ LET r == IF Trim(call[i].buffer) = <<>>
              THEN [events |-> events, posts |-> posts]
              ELSE OnPart(events, posts, call[i].buffer)
     IN events' = r.events /\ posts' = r.posts
  /\ isLoading' = FALSE
  /\ abortRef' = Null
  /\ call' = [call EXCEPT ![i] = Finished]
  /\ UNCHANGED <<card, form, request, image>>

\* if (done) break; setIsLoading(false); finally
ReadDone(i) ==
  /\ call[i].pc = "read"
  /\ call[i].body = "closed"
  /\ isLoading' = FALSE
  /\ abortRef' = Null
  /\ call' = [call EXCEPT ![i] = Finished]
  /\ UNCHANGED <<events, posts>>
  /\ UNCHANGED <<card, form, request, image>>

Rejected(i) ==
  /\ \/ call[i].pc = "fetch" /\ call[i].aborted # "no"
     \/ call[i].pc \in {"text", "read"} /\ call[i].body = "errored"
  /\ call' = [call EXCEPT ![i].pc = "catch", ![i].err = "AbortError"]
  /\ UNCHANGED <<isLoading, events, posts, abortRef>>
  /\ UNCHANGED <<card, form, request, image>>

CatchRetries(i) ==
  /\ call[i].pc = "catch"
  /\ events' = Append(events, Reported(call[i].err))
  /\ call' = [call EXCEPT ![i] = [Fresh EXCEPT !.pc = "fetch"]]
  /\ UNCHANGED <<isLoading, posts, abortRef>>
  /\ UNCHANGED <<card, form, request, image>>

CatchNoFinally(i) ==
  /\ call[i].pc = "catch"
  /\ events' = Append(events, Reported(call[i].err))
  /\ isLoading' = FALSE
  /\ call' = [call EXCEPT ![i] = Finished]
  /\ UNCHANGED <<posts, abortRef>>
  /\ UNCHANGED <<card, form, request, image>>

\* the outer catch and finally
Catch(i) ==
  /\ call[i].pc = "catch"
  /\ events' = Append(events, Reported(call[i].err))
  /\ isLoading' = FALSE
  /\ abortRef' = Null
  /\ call' = [call EXCEPT ![i] = Finished]
  /\ UNCHANGED posts
  /\ UNCHANGED <<card, form, request, image>>

Next ==
  \/ Submit
  \/ Cancel
  \/ \E i \in Calls : FetchResponse(i)
  \/ \E i \in Calls : NetworkError(i)
  \/ \E i \in Calls : TextResolve(i)
  \/ \E i \in Calls : ReadChunk(i)
  \/ \E i \in Calls : StreamClose(i)
  \/ \E i \in Calls : ForStep(i)
  \/ \E i \in Calls : ForEnd(i)
  \/ \E i \in Calls : ReadDone(i)
  \/ \E i \in Calls : Rejected(i)
  \/ \E i \in Calls : Catch(i)

Spec == Init /\ [][Next]_vars

\* a pending fetch, res.text() or reader.read() of call i settles
Settle(i) ==
  \/ FetchResponse(i)
  \/ NetworkError(i)
  \/ TextResolve(i)
  \/ ReadChunk(i)
  \/ StreamClose(i)

\* the code of call i after an await whose promise has settled
Continue(i) ==
  \/ ForStep(i)
  \/ ForEnd(i)
  \/ ReadDone(i)
  \/ Rejected(i)
  \/ Catch(i)

\* every pending network call eventually resolves or rejects, and the event
\* loop runs every continuation that is due
FairSpec ==
  /\ Spec
  /\ WF_vars(\E i \in Calls : Settle(i))
  /\ WF_vars(\E i \in Calls : Continue(i))

\* ------------------------------------------------------- PostCard actions
\* the post the tracked card is rendered from: the first of the post list
CardPost == PostOf(posts[1])

AppVars == <<isLoading, events, posts, abortRef, call>>

\* the Edit button of the header
EditClick ==
  /\ card.mounted
  /\ ~card.isEditing
  /\ card' = [card EXCEPT !.isEditing = TRUE]
  /\ UNCHANGED <<AppVars, form, request, image>>

\* the Cancel button of the header: back to the fields of the post
HeaderCancel ==
  /\ card.mounted
  /\ card.isEditing
  /\ card' = [card EXCEPT !.isEditing = FALSE,
                          !.editedText = CardPost.text,
                          !.editedHashtags = JoinComma(CardPost.hashtags),
                          !.editedCTA = CardPost.cta_suggestion]
  /\ UNCHANGED <<AppVars, form, request, image>>

\* the Close button of the edit form
CloseEdit ==
  /\ card.mounted
  /\ card.isEditing
  /\ card' = [card EXCEPT !.isEditing = FALSE]
  /\ UNCHANGED <<AppVars, form, request, image>>

TypeText ==
  /\ card.mounted
  /\ card.isEditing
  /\ \E t \in TextInputs : card' = [card EXCEPT !.editedText = t]
  /\ UNCHANGED <<AppVars, form, request, image>>

TypeHashtags ==
  /\ card.mounted
  /\ card.isEditing
  /\ \E h \in HashtagInputs : card' = [card EXCEPT !.editedHashtags = h]
  /\ UNCHANGED <<AppVars, form, request, image>>

TypeCTA ==
  /\ card.mounted
  /\ card.isEditing
  /\ \E c \in CTAInputs : card' = [card EXCEPT !.editedCTA = c]
  /\ UNCHANGED <<AppVars, form, request, image>>

TypeInstruction ==
  /\ card.mounted
  /\ card.isEditing
  /\ \E t \in InstructionInputs : card' = [card EXCEPT !.llmInstruction = t]
  /\ UNCHANGED <<AppVars, form, request, image>>

\* the post saveEdit builds from the fields
EditedPost ==
  [text |-> card.editedText,
   hashtags |-> ParseHashtags(card.editedHashtags),
   cta_suggestion |-> card.editedCTA]

\* the Save button and saveEdit, which has no await
SaveEdit ==
  /\ card.mounted
  /\ card.isEditing
  /\ posts' = OnUpdate(posts, EditedPost)
  /\ card' = ShowLocalToast(
               [card EXCEPT !.isEditing = FALSE,
                            !.editedText = EditedPost.text,
                            !.editedHashtags = JoinComma(EditedPost.hashtags),
                            !.editedCTA = EditedPost.cta_suggestion,
                            !.committed = EditedPost.text],
               "Post updated locally")
  /\ UNCHANGED <<isLoading, events, abortRef, call, form, request, image>>

\* the Run button (enabled while llmRunning is false) and runLlmEdit up to
\* its fetch
RunLlmEdit ==
  /\ card.mounted
  /\ card.isEditing
  /\ ~card.llmRunning
  /\ card' = IF Trim(card.llmInstruction) = <<>>
             THEN ShowLocalToast(card, "Provide an instruction")
             ELSE [card EXCEPT !.llmRunning = TRUE, !.llm = "fetch"]
  /\ UNCHANGED <<AppVars, form, request, image>>

\* the fetch of the edit endpoint resolves: on to res.json(), or to
\* res.text() when the status is not a success
LlmFetchResolve ==
  /\ card.llm = "fetch"
  /\ \E ok \in BOOLEAN : card' = [card EXCEPT !.llm = IF ok THEN "json" ELSE "text"]
  /\ UNCHANGED <<AppVars, form, request, image>>

\* res.text() of a failed response resolves: throw new Error(t || ...), the
\* catch and the finally
LlmTextResolve ==
  /\ card.llm = "text"
  /\ \E t \in BodyTexts :
       card' = ShowLocalToast([card EXCEPT !.llm = "idle", !.llmRunning = FALSE],
                              CatchMessage(t, "LLM edit failed"))
  /\ UNCHANGED <<AppVars, form, request, image>>

\* res.json() resolves with the replacement post
LlmJsonResolve ==
  /\ card.llm = "json"
  /\ \E u \in UpdatedPosts :
       /\ posts' = OnUpdate(posts, u)
       /\ card' = ShowLocalToast(
                    [card EXCEPT !.llm = "idle", !.llmRunning = FALSE,
                                 !.isEditing = FALSE,
                                 !.editedText = u.text,
                                 !.editedHashtags = JoinComma(u.hashtags),
                                 !.editedCTA = u.cta_suggestion,
                                 !.committed = u.text],
                    "LLM edit applied")
  /\ UNCHANGED <<isLoading, events, abortRef, call, form, request, image>>

LlmRejectClosesForm ==
  /\ card.llm # "idle"
  /\ \E m \in RejectMessages :
       card' = ShowLocalToast([card EXCEPT !.llm = "idle", !.llmRunning = FALSE,
                                           !.isEditing = FALSE],
                              CatchMessage(m, "LLM edit failed"))
  /\ UNCHANGED <<AppVars, form, request, image>>

\* the fetch, res.text() or res.json() rejects: the catch and the finally
LlmReject ==
  /\ card.llm # "idle"
  /\ \E m \in RejectMessages :
       card' = ShowLocalToast([card EXCEPT !.llm = "idle", !.llmRunning = FALSE],
                              CatchMessage(m, "LLM edit failed"))
  /\ UNCHANGED <<AppVars, form, request, image>>

\* a timer of showLocalToast fires
ToastTimeout ==
  /\ card.mounted
  /\ card.timers > 0
  /\ \E n \in {card.timers - 1, card.timers} :
       /\ n = card.timers => card.timers = 2
       /\ card' = [card EXCEPT !.localToast = "", !.timers = n]
  /\ UNCHANGED <<AppVars, form, request, image>>

NextCard ==
  \/ EditClick
  \/ HeaderCancel
  \/ CloseEdit
  \/ TypeText
  \/ TypeHashtags
  \/ TypeCTA
  \/ TypeInstruction
  \/ SaveEdit
  \/ RunLlmEdit
  \/ LlmFetchResolve
  \/ LlmTextResolve
  \/ LlmJsonResolve
  \/ LlmReject
  \/ ToastTimeout

\* a generation has ended with one post, whose card is mounted
InitCard ==
  /\ isLoading = FALSE
  /\ events = <<ValueOf("G")>>
  /\ posts = <<"post">>
  /\ abortRef = Null
  /\ call = [i \in Calls |-> IF i = 1 THEN Finished ELSE Fresh]
  /\ card = MountCard(PostOf("post"))
  /\ form = DefaultForm
  /\ request = NoRequest
  /\ image = NoImage

\* the application with the card of the first post; a new submission
\* unmounts it
SpecCard == InitCard /\ [][Next \/ NextCard]_vars

\* -------------------------------------------------- PostInputForm actions
TypeTopic ==
  /\ NoMicrotask
  /\ \E t \in TopicInputs : form' = [form EXCEPT !.topic = t]
  /\ UNCHANGED <<AppVars, card, request, image>>

SelectTone ==
  /\ NoMicrotask
  /\ \E t \in ToneInputs : form' = [form EXCEPT !.tone = t]
  /\ UNCHANGED <<AppVars, card, request, image>>

\* onChange of the post count field
TypePostCount ==
  /\ NoMicrotask
  /\ \E v \in PostCountInputs : form' = [form EXCEPT !.postCount = PostCountOf(v)]
  /\ UNCHANGED <<AppVars, card, request, image>>

\* onChange of the emoji slider
SlideEmoji ==
  /\ NoMicrotask
  /\ \E v \in EmojiInputs : form' = [form EXCEPT !.emojiLevel = ParseInt(v).n]
  /\ UNCHANGED <<AppVars, card, request, image>>

\* the submit button (disabled while isLoading or the topic is blank), the
\* browser's validation of the form, the form's handleSubmit and the App's
FormSubmit ==
  /\ ~isLoading
  /\ Trim(form.topic) # <<>>
  /\ FormValid(form)
  /\ request' = RequestData(form)
  /\ HandleSubmit
  /\ UNCHANGED <<form, image>>

\* the form in front of an endpoint that cannot be reached: a submitted
\* generation ends by a transport failure or by Cancel
NextForm ==
  \/ TypeTopic
  \/ SelectTone
  \/ TypePostCount
  \/ SlideEmoji
  \/ FormSubmit
  \/ Cancel
  \/ \E i \in Calls : NetworkError(i)
  \/ \E i \in Calls : Rejected(i)
  \/ \E i \in Calls : Catch(i)

SpecForm == Init /\ [][NextForm]_vars

\* -------------------------------------------------- ImageGenerator actions
\* the image block is rendered
ImageShown ==
  /\ image.response # NoResponse
  /\ image.response[1].success
  /\ image.response[1].image_data # ""

\* the error block is rendered: error is truthy
ErrorShown == image.error # NoError /\ image.error[1] # <<>>

ImgLive(i) == image.req[i].pc \in {"fetch", "text", "json"}

\* the promise activation i awaits has settled
ImgMicrotaskDue(i) ==
  /\ ImgLive(i)
  /\ \/ image.req[i].rej # ""
     \/ image.req[i].pc \in {"text", "json"} /\ image.req[i].body = "closed"

ImgNoMicrotask == \A i \in Calls : ~ImgMicrotaskDue(i)

\* AbortController.abort(): rejects the pending fetch or body read
ImgAbort(r) ==
  IF r.rej = "" /\ (r.pc = "fetch" \/ r.body = "readable")
  THEN [r EXCEPT !.rej = "AbortError"]
  ELSE r

OtherVars == <<isLoading, events, posts, abortRef, call, card, form, request>>

ImgTypePrompt ==
  /\ ImgNoMicrotask
  /\ \E t \in PromptInputs : image' = [image EXCEPT !.prompt = t]
  /\ UNCHANGED OtherVars

ImgSubmitKeepsResponse ==
  /\ ImgNoMicrotask
  /\ ~image.loading
  /\ Trim(image.prompt) # <<>>
  /\ \E i \in Calls :
       /\ ~ImgLive(i)
       /\ \A j \in Calls : ~ImgLive(j) => i <= j
       /\ image' = [image EXCEPT !.loading = TRUE,
                                 !.error = NoError,
                                 !.abortRef = i,
                                 !.req[i] = [ImgFresh EXCEPT !.pc = "fetch"]]
  /\ UNCHANGED OtherVars

\* the submit button (enabled while loading is false and the prompt is not
\* blank) and handleSubmit up to its fetch
ImgSubmit ==
  /\ ImgNoMicrotask
  /\ ~image.loading
  /\ Trim(image.prompt) # <<>>
  /\ \E i \in Calls :
       /\ ~ImgLive(i)
       /\ \A j \in Calls : ~ImgLive(j) => i <= j
       /\ image' = [image EXCEPT !.loading = TRUE,
                                 !.error = NoError,
                                 !.response = NoResponse,
                                 !.abortRef = i,
                                 !.req[i] = [ImgFresh EXCEPT !.pc = "fetch"]]
  /\ UNCHANGED OtherVars

\* the Cancel button, rendered while loading, and handleCancel
ImgCancel ==
  /\ ImgNoMicrotask
  /\ image.loading
  /\ image' = [image EXCEPT !.loading = FALSE,
                            !.req = IF image.abortRef # Null
                                    THEN [@ EXCEPT ![image.abortRef] = ImgAbort(@)]
                                    ELSE @]
  /\ UNCHANGED OtherVars

\* the answer's head arrives: fetch resolves
ImgFetchResponse(i) ==
  /\ ImgNoMicrotask
  /\ image.req[i].pc = "fetch"
  /\ \E st \in {"200", "500"} :
       image' = [image EXCEPT !.req[i].pc = IF st = "200" THEN "json" ELSE "text",
                              !.req[i].status = st,
                              !.req[i].body = "readable"]
  /\ UNCHANGED OtherVars

\* the rest of the body arrives while text() or json() reads it
ImgBodyArrives(i) ==
  /\ ImgNoMicrotask
  /\ image.req[i].pc \in {"text", "json"}
  /\ image.req[i].body = "readable"
  /\ \/ /\ image.req[i].pc = "text"
        /\ \E t \in BodyTexts :
             image' = [image EXCEPT !.req[i].body = "closed", !.req[i].text = t]
     \/ /\ image.req[i].pc = "json"
        /\ \E d \in ImageBodies :
             image' = [image EXCEPT !.req[i].body = "closed", !.req[i].data = d]
  /\ UNCHANGED OtherVars

\* the network fails under the pending fetch or body read
ImgNetworkError(i) ==
  /\ ImgNoMicrotask
  /\ ImgLive(i)
  /\ \E m \in RejectMessages :
       image' = [image EXCEPT !.req[i].rej = "TypeError",
                              !.req[i].msg = IF m = "" THEN <<>> ELSE <<m>>]
  /\ UNCHANGED OtherVars

\* the end of handleSubmit: the catch block's setError if something was
\* thrown, then the finally block
ImgReturn(im, i, thrown, name, msg) ==
  [im EXCEPT !.error = IF thrown THEN ImgCatch(name, msg) ELSE @,
             !.loading = FALSE,
             !.abortRef = Null,
             !.req[i] = ImgDone]

\* the awaited fetch, text() or json() rejects
ImgRejected(i) ==
  /\ ImgLive(i)
  /\ image.req[i].rej # ""
  /\ image' = ImgReturn(image, i, TRUE, image.req[i].rej, image.req[i].msg)
  /\ UNCHANGED OtherVars

\* text() of a non-2xx answer resolves: throw new Error(`HTTP ...`)
ImgTextResolve(i) ==
  /\ image.req[i].pc = "text"
  /\ image.req[i].rej = ""
  /\ image.req[i].body = "closed"
  /\ image' = ImgReturn(image, i, TRUE, "Error",
                        <<"HTTP ", image.req[i].status, ": ", image.req[i].text>>)
  /\ UNCHANGED OtherVars

\* json() of a 2xx answer settles
ImgJsonResolve(i) ==
  /\ image.req[i].pc = "json"
  /\ image.req[i].rej = ""
  /\ image.req[i].body = "closed"
  /\ LET d == image.req[i].data IN
       image' =
         IF d.json = "invalid"
         THEN ImgReturn(image, i, TRUE, "SyntaxError", <<"Unexpected token">>)
         ELSE IF d.json = "null"
         THEN ImgReturn([image EXCEPT !.response = NoResponse], i, TRUE, "TypeError",
                        <<"Cannot read properties of null">>)
         ELSE IF ~d.success
         THEN ImgReturn([image EXCEPT !.response = <<d>>,
                                      !.error = IF d.error_message # <<>>
                                                THEN <<d.error_message>>
                                                ELSE << <<"Failed to generate image">> >>],
                        i, FALSE, "", <<>>)
         ELSE ImgReturn(ImgShowLocalToast([image EXCEPT !.response = <<d>>],
                                          "Image generated"),
                        i, FALSE, "", <<>>)
  /\ UNCHANGED OtherVars

\* the Download button under the image
ImgDownload ==
  /\ ImgNoMicrotask
  /\ ImageShown
  /\ image' = ImgShowLocalToast(image, "Image downloaded")
  /\ UNCHANGED OtherVars

\* the Copy button under the image, at the settlement of writeText
ImgCopy ==
  /\ ImgNoMicrotask
  /\ ImageShown
  /\ \E m \in {"Image data URL copied to clipboard", "Copy failed"} :
       image' = ImgShowLocalToast(image, m)
  /\ UNCHANGED OtherVars

\* a timer of showLocalToast fires
ImgToastTimeout ==
  /\ ImgNoMicrotask
  /\ image.timers > 0
  /\ \E n \in {image.timers - 1, image.timers} :
       /\ n = image.timers => image.timers = 2
       /\ image' = [image EXCEPT !.showToast = FALSE, !.timers = n]
  /\ UNCHANGED OtherVars

\* the close button of the toast
ImgToastClose ==
  /\ ImgNoMicrotask
  /\ image.showToast
  /\ image' = [image EXCEPT !.showToast = FALSE]
  /\ UNCHANGED OtherVars

NextImage ==
  \/ ImgTypePrompt
  \/ ImgSubmit
  \/ ImgCancel
  \/ \E i \in Calls : ImgFetchResponse(i)
  \/ \E i \in Calls : ImgBodyArrives(i)
  \/ \E i \in Calls : ImgNetworkError(i)
  \/ \E i \in Calls : ImgRejected(i)
  \/ \E i \in Calls : ImgTextResolve(i)
  \/ \E i \in Calls : ImgJsonResolve(i)
  \/ ImgDownload
  \/ ImgCopy
  \/ ImgToastTimeout
  \/ ImgToastClose

SpecImage == Init /\ [][NextImage]_vars

TypeOK ==
  /\ isLoading \in BOOLEAN
  /\ abortRef \in {Null} \cup Calls

\* ---------------------------------------------------------------- properties
Live(i) == call[i].pc \notin {"idle", "done"}

\* the segment call i is about to process in the for loop
AtPart(i) == call[i].pc = "for" /\ call[i].parts # <<>>

Delivered(i) == SubSeq(call[i].stream, 1, call[i].pos)

\* C1: chunk-boundary independence.  Whenever the consumer waits in
\* reader.read(), however the bytes delivered so far were cut into chunks,
\* the event list, the post list and the retained buffer are those of the
\* consumer run on the same bytes delivered as one chunk; at the end of the
\* stream, or after a terminal event, they are those of the whole stream
\* delivered as one chunk.
C1_ChunkIndependence ==
  \A i \in Calls :
    call[i].pc = "read" =>
      /\ events = WholeRun(Delivered(i)).events
      /\ posts = WholeRun(Delivered(i)).posts
      /\ call[i].buffer = WholeRun(Delivered(i)).buffer
      /\ (call[i].pos = Len(call[i].stream) \/ call[i].aborted = "event") =>
           /\ events = WholeRun(call[i].stream).events
           /\ posts = WholeRun(call[i].stream).posts

\* a chunk boundary fell inside a segment, and inside a multi-byte character,
\* after an event had already been parsed
C1_Witness ==
  \E i \in Calls :
    /\ call[i].pc = "read"
    /\ call[i].held = "M1"
    /\ call[i].buffer # <<>>
    /\ Len(events) >= 1

\* C2: once a COMPLETE or ERROR event of the server has been appended (the
\* consumer has then aborted its controller), no reader.read() is performed
\* on that stream any more and isLoading is false.
C2_TerminalHaltsReads ==
  \A i \in Calls :
    call[i].aborted = "event" => call[i].pc # "read" /\ ~isLoading

StreamPC == Frame("P") \o Frame("C")

\* C3: a stream delivering PROGRESS("searching") and then COMPLETE, without
\* user cancellation, ends with events = [PROGRESS("searching"), COMPLETE],
\* no posts and isLoading false.
C3_ProgressComplete ==
  [][\A i \in Calls :
       (call[i].stream = StreamPC /\ call[i].aborted = "event" /\ call'[i].pc = "done") =>
         /\ events' = <<ValueOf("P"), ValueOf("C")>>
         /\ posts' = <<>>
         /\ ~isLoading']_vars

NoStream(i) == call[i].status \in {"500", "204"}

\* the event type ERROR, message "Server error: <status> <text>"
IsServerError(e, status, text) ==
  /\ e.type = "ERROR"
  /\ e.message = <<"Server error: ", status, " ", text>>
  /\ e.payload = NoPayload

\* C4 as stated: a response with a non-success status or without a body
\* ends with exactly one event, ERROR "Server error: <status> <text>", no
\* posts, isLoading false, and the read loop is never entered.
C4_Original ==
  [][\A i \in Calls :
       NoStream(i) =>
         /\ call'[i].pc \notin {"read", "for"}
         /\ call'[i].pc = "done" =>
              /\ \E t \in BodyTexts :
                   Len(events') = 1 /\ IsServerError(events'[1], call[i].status, t)
              /\ posts' = <<>>
              /\ ~isLoading']_vars

\* C4 amended: such a response ends with exactly one event, no posts and
\* isLoading false, and the read loop is never entered; the event is ERROR
\* "Server error: <status> <text>" when res.text() resolves, and otherwise
\* the event of the outer catch: PROGRESS "Stream aborted." when the user
\* cancelled while the text was awaited, ERROR String(err) when reading the
\* text failed.
C4_HttpFailure ==
  [][\A i \in Calls :
       NoStream(i) =>
         /\ call'[i].pc \notin {"read", "for"}
         /\ call'[i].pc = "done" =>
              /\ posts' = <<>>
              /\ ~isLoading'
              /\ \/ /\ call[i].pc = "text"
                    /\ \E t \in BodyTexts :
                         Len(events') = 1 /\ IsServerError(events'[1], call[i].status, t)
                 \/ /\ call[i].pc = "catch"
                    /\ call[i].aborted = "user"
                    /\ events' = <<StreamAborted>>
                 \/ /\ call[i].pc = "catch"
                    /\ call[i].aborted = "no"
                    /\ events' = <<ThrownError("TypeError")>>]_vars

\* HTTP 500 with body "overloaded"
C4_Witness ==
  /\ call[1].pc = "done"
  /\ Len(events) = 1
  /\ IsServerError(events[1], "500", "overloaded")
  /\ posts = <<>>
  /\ ~isLoading

\* C5: handleCancel sets isLoading false and changes neither list; the
\* cancelled call then ends by appending PROGRESS "Stream aborted." (not an
\* ERROR event) after everything received before, posts untouched.
C5_CancelReported ==
  [][\A i \in Calls :
       /\ (call[i].aborted = "no" /\ call'[i].aborted = "user") =>
            events' = events /\ posts' = posts /\ ~isLoading'
       /\ call[i].aborted = "user" =>
            /\ posts' = posts
            /\ ~isLoading'
            /\ \/ call'[i].pc = "catch" /\ call'[i].err = "AbortError" /\ events' = events
               \/ call'[i].pc = "done" /\ events' = Append(events, StreamAborted)]_vars

\* cancelled after one POST_GENERATED event had been received
C5_Witness ==
  /\ events = <<ValueOf("G"), StreamAborted>>
  /\ posts = <<"post">>
  /\ ~isLoading
  /\ call[1].pc = "done"

InvalidJson(part) == ~Skipped(part) /\ ~JsonParse(JsonText(part)).ok

\* C6: a segment whose data: lines are invalid JSON appends exactly one
\* ERROR event carrying the parse failure; posts, isLoading and the abort
\* signal are unchanged and the loop goes on with the remaining segments.
C6_InvalidJsonContinues ==
  [][\A i \in Calls :
       (AtPart(i) /\ InvalidJson(Head(call[i].parts))) =>
         /\ events' = Append(events, ParseFailure("SyntaxError"))
         /\ posts' = posts
         /\ isLoading' = isLoading
         /\ call'[i] = [call[i] EXCEPT !.parts = Tail(@)]]_vars

\* an invalid segment was reported and a later segment of the same chunk is
\* still to be processed
C6_Witness ==
  \E i \in Calls :
    /\ AtPart(i)
    /\ isLoading
    /\ events = <<ParseFailure("SyntaxError")>>

PostGenerated(part) ==
  /\ ~Skipped(part)
  /\ JsonParse(JsonText(part)).ok
  /\ JsonParse(JsonText(part)).value.type = "POST_GENERATED"

\* C7 as stated: every POST_GENERATED event, with or without a payload,
\* appends exactly one entry to the event list and one to the post list.
C7_Original ==
  [][\A i \in Calls :
       (AtPart(i) /\ PostGenerated(Head(call[i].parts))) =>
         /\ Len(events') = Len(events) + 1
         /\ Len(posts') = Len(posts) + 1]_vars

\* C7 amended: a POST_GENERATED event appends itself to the event list; it
\* appends its payload to the post list when it carries one, and leaves the
\* post list unchanged when it carries none.
C7_PostGenerated ==
  [][\A i \in Calls :
       (AtPart(i) /\ PostGenerated(Head(call[i].parts))) =>
         LET v == JsonParse(JsonText(Head(call[i].parts))).value IN
         /\ events' = Append(events, v)
         /\ posts' = IF v.payload # NoPayload THEN Append(posts, v.payload) ELSE posts]_vars

\* one event with a payload and one without have been received
C7_Witness ==
  /\ events = <<ValueOf("G"), ValueOf("g")>>
  /\ posts = <<"post">>

\* C8: a segment without data: lines appends no event; the lists and
\* isLoading are unchanged and the loop goes on with the next segment.
C8_NoDataLinesSkipped ==
  [][\A i \in Calls :
       (AtPart(i) /\ DataLines(Head(call[i].parts)) = <<>>) =>
         /\ events' = events
         /\ posts' = posts
         /\ isLoading' = isLoading
         /\ call'[i] = [call[i] EXCEPT !.parts = Tail(@)]]_vars

\* the comment-only segment at the head of the stream has been passed and
\* the segment after it produced the only event
C8_Witness ==
  \E i \in Calls :
    /\ call[i].stream = <<COLON, "k", LF, LF>> \o Frame("P")
    /\ call[i].pc = "for"
    /\ call[i].parts = <<>>
    /\ events = <<ValueOf("P")>>
    /\ isLoading

\* C9 as stated: isLoading is true iff abortRef.current is non-null.
C9_Original == isLoading <=> abortRef # Null

\* C9 amended: isLoading implies a handle is held; a handle is held with
\* isLoading false only from handleCancel or a terminal event until the
\* continuation of that handleSubmit call, already due, has run.
C9_LoadingImpliesHandle ==
  /\ isLoading => abortRef # Null
  /\ (abortRef # Null /\ ~isLoading) => MicrotaskDue(abortRef)

\* cancelled while reading: flag cleared, handle still held
C9_Witness ==
  /\ ~isLoading
  /\ abortRef # Null
  /\ call[abortRef].pc = "read"
  /\ call[abortRef].aborted = "user"

\* C10: at most one handleSubmit call has started and not finished.
C10_OneInFlight == Cardinality({i \in Calls : Live(i)}) <= 1

\* a call is still live while isLoading is false, the condition under which
\* the submit button is enabled
C10_Witness ==
  \E i \in Calls :
    /\ Live(i)
    /\ ~isLoading
    /\ call[i].pc = "read"

\* the segment is the JSON text null, on whose type the consumer throws
NullJson(part) ==
  /\ ~Skipped(part)
  /\ JsonParse(JsonText(part)).ok
  /\ JsonParse(JsonText(part)).value.json = "null"

ServerErrorEvent(part) ==
  /\ ~Skipped(part)
  /\ JsonParse(JsonText(part)).ok
  /\ JsonParse(JsonText(part)).value.type = "ERROR"

\* the server-assisted edit of the card ends in this step
LlmEnds == card.llm # "idle" /\ card'.llm = "idle" /\ card'.mounted

Requested(i) == call[i].pc # "fetch" /\ call'[i].pc = "fetch"

\* C12: nothing is retried.  A request to the generate endpoint is issued
\* only by a step of the submit button (isLoading goes from false to true),
\* such a step issues exactly one request, and no step that ends or fails a
\* generation issues one.
C12_NoRetry ==
  [][/\ Cardinality({i \in Calls : Requested(i)}) =
          IF ~isLoading /\ isLoading' THEN 1 ELSE 0
     /\ \A i \in Calls :
          Live(i) => (call'[i].pc = "fetch" => call[i].pc = "fetch")]_vars

\* a generation failed on a transport error and nothing is in flight
C12_Witness ==
  /\ \A i \in Calls : ~Live(i)
  /\ events = <<ThrownError("TypeError")>>
  /\ ~isLoading
  /\ abortRef = Null

\* C13: a server-assisted edit that fails leaves the post list, the edited
\* text, hashtags and CTA and the edit mode as they were and sets a
\* non-empty local message.
C13_FailedEditKeepsPost ==
  [][(LlmEnds /\ card'.localToast # "LLM edit applied") =>
       /\ posts' = posts
       /\ card'.editedText = card.editedText
       /\ card'.editedHashtags = card.editedHashtags
       /\ card'.editedCTA = card.editedCTA
       /\ card'.isEditing = card.isEditing
       /\ card'.localToast # ""]_vars

\* the edit request failed in transport after the user had typed a new
\* text: the form is still open with that text
C13_Witness ==
  /\ card.mounted
  /\ card.isEditing
  /\ card.editedText = "typed"
  /\ card.llm = "idle"
  /\ card.localToast = "Failed to fetch"
  /\ posts = <<"post">>

\* C14: after saveEdit the first post of the post list has the edited
\* text, hashtags and CTA, and after a successful runLlmEdit it is the
\* replacement post of the server.
C14_EditOverwritesPost ==
  [][/\ (/\ card.isEditing /\ ~card'.isEditing
          /\ card'.llm = card.llm
          /\ card'.timers = card.timers + 1) =>
          PostOf(posts'[1]) = EditedPost
     /\ (card.llm = "json" /\ card'.llm = "idle" /\
         card'.localToast = "LLM edit applied") =>
          PostOf(posts'[1]) \in UpdatedPosts]_vars

\* C15: when reader.read() reports done and no COMPLETE or ERROR event has
\* been seen, the call returns: the event list and the post list are
\* unchanged, they are those parsed from the stream, and isLoading is false.
C15_EndOfStream ==
  [][\A i \in Calls :
       (call[i].pc = "read" /\ call[i].body = "closed" /\ call[i].aborted = "no") =>
         /\ events' = events
         /\ events' = WholeRun(call[i].stream).events
         /\ posts' = posts
         /\ ~isLoading'
         /\ call'[i].pc = "done"]_vars

\* the stream ended after one PROGRESS event and an unterminated segment
C15_Witness ==
  /\ call[1].pc = "done"
  /\ events = <<ValueOf("P")>>
  /\ posts = <<>>
  /\ ~isLoading
  /\ abortRef = Null

\* C16: the step in which a handleSubmit call starts leaves the event list
\* and the post list empty and isLoading true, whatever they held before.
C16_SubmitResets ==
  [][\A i \in Calls :
       (IsFree(i) /\ call'[i].pc = "fetch") =>
         events' = <<>> /\ posts' = <<>> /\ isLoading']_vars

\* a submission made with the post of the previous generation on display:
\* the first call has returned and its entry is used again, the lists are
\* empty and the card is gone
C16_Witness ==
  /\ call[1].pc = "fetch"
  /\ call[2].pc = "idle"
  /\ events = <<>>
  /\ posts = <<>>
  /\ isLoading
  /\ abortRef = 1
  /\ ~card.mounted

\* C17: whenever a handleSubmit call has started, eventually every call has
\* returned, abortRef.current is null and isLoading is false.
C17_EventuallyCleared ==
  (\E i \in Calls : Live(i)) ~>
    ((\A i \in Calls : ~Live(i)) /\ abortRef = Null /\ ~isLoading)

\* a cancelled call has returned
C17_Witness ==
  /\ call[1].pc = "done"
  /\ events = <<ValueOf("P"), StreamAborted>>
  /\ abortRef = Null
  /\ ~isLoading

\* C18: the post_count of every request passed to onSubmit is an integer
\* from 1 to 5.
C18_PostCountInRange ==
  request # NoRequest =>
    request.post_count \in Int /\ request.post_count >= 1 /\ request.post_count <= 5

\* a request with post count 5 was submitted and its generation ended; the
\* field now holds 40, which the form does not submit
C18_Witness ==
  /\ request # NoRequest
  /\ request.post_count = 5
  /\ form.postCount = 40
  /\ ~isLoading
  /\ \A i \in Calls : ~Live(i)

\* C19: PROGRESS "Stream aborted." is appended only for a call the user
\* cancelled, never for a call whose controller the consumer aborted itself
\* after a COMPLETE or ERROR event.
C19_AbortedOnlyByUser ==
  [][\A i \in Calls :
       (call[i].pc = "catch" /\ call'[i].pc = "done" /\
        events' = Append(events, StreamAborted)) =>
         call[i].aborted = "user"]_vars

RECURSIVE Payloads(_)
\* the payloads of the POST_GENERATED events of ev that carry one, in order
Payloads(ev) ==
  IF ev = <<>> THEN <<>>
  ELSE LET e == Head(ev) IN
    IF e.type = "POST_GENERATED" /\ e.payload # NoPayload
    THEN <<e.payload>> \o Payloads(Tail(ev))
    ELSE Payloads(Tail(ev))

\* C20: in every state the post list is, in order, the payloads of the
\* POST_GENERATED events of the event list that carry a payload.
C20_PostsFromEvents == posts = Payloads(events)

\* two posts with different payloads have been received
C20_Witness ==
  /\ posts = <<"post", "post2">>
  /\ Len(events) = 2
  /\ \E i \in Calls : call[i].pc = "read"

IsPrefix(a, b) == Len(a) <= Len(b) /\ SubSeq(b, 1, Len(a)) = a

\* the step starts a handleSubmit call
Starts == \E i \in Calls : IsFree(i) /\ call'[i].pc = "fetch"

\* the event is a value the server sent, not one the consumer made
IsParsedEvent(e) == e \in {ValueOf(t) : t \in JsonValues}

RECURSIVE ValuesOf(_)
\* the values of the segments that carry valid JSON, in stream order
ValuesOf(segments) ==
  IF segments = <<>> THEN <<>>
  ELSE LET part == Head(segments) IN
    IF ~Skipped(part) /\ Parse(part).ok
    THEN <<Parse(part).value>> \o ValuesOf(Tail(segments))
    ELSE ValuesOf(Tail(segments))

\* the complete segments of a response body
SegmentsOf(bytes) ==
  LET split == SplitBlank(Decode("", bytes).text) IN SubSeq(split, 1, Len(split) - 1)

\* the values the complete segments of each stream parse to, tabulated
StreamValues == [bytes \in Streams |-> ValuesOf(SegmentsOf(bytes))]

\* C21: within a generation the event list only grows at its end: except
\* in the step that starts a handleSubmit call, the old list is a prefix of
\* the new one, one entry longer at most (two for a JSON null segment, whose
\* iteration calls pushEvent twice), and the parsed events in the list are,
\* in order, the values of the first segments of the stream.
C21_AppendOnly ==
  [][/\ ~Starts =>
          /\ IsPrefix(events, events')
          /\ Len(events') <= Len(events) + 2
          /\ Len(events') = Len(events) + 2 =>
               \E i \in Calls : AtPart(i) /\ NullJson(Head(call[i].parts))
     /\ \A i \in Calls :
          call'[i].pc \in {"read", "for"} =>
            IsPrefix(SelectSeq(events', IsParsedEvent),
                     StreamValues[call'[i].stream])]_vars

\* a parse failure and then a parsed event, in the order of their segments
C21_Witness ==
  \E i \in Calls :
    /\ call[i].pc = "read"
    /\ events = <<ParseFailure("SyntaxError"), ValueOf("G")>>
    /\ isLoading

\* the segment is a JSON object whose type is none of the four known ones
UnknownType(part) ==
  /\ ~Skipped(part)
  /\ JsonParse(JsonText(part)).ok
  /\ JsonParse(JsonText(part)).value.json = "object"
  /\ JsonParse(JsonText(part)).value.type \notin
       {"PROGRESS", "POST_GENERATED", "COMPLETE", "ERROR"}

\* C22: a segment that is a JSON object of an unknown type is appended to
\* the event list as parsed; the post list, isLoading and the abort signal
\* are unchanged and the loop goes on with the remaining segments.
C22_UnknownTypeAppended ==
  [][\A i \in Calls :
       (AtPart(i) /\ UnknownType(Head(call[i].parts))) =>
         /\ events' = Append(events, JsonParse(JsonText(Head(call[i].parts))).value)
         /\ posts' = posts
         /\ isLoading' = isLoading
         /\ call'[i] = [call[i] EXCEPT !.parts = Tail(@)]]_vars

\* an event of unknown type was appended and a later event after it
C22_Witness ==
  /\ events = <<ValueOf("U"), ValueOf("G")>>
  /\ posts = <<"post">>
  /\ isLoading
  /\ \E i \in Calls : call[i].pc = "read" /\ call[i].aborted = "no"

AfterPrefix(l) ==
  LET rest == SubSeq(l, 3, Len(l)) IN
  IF rest # <<>> /\ Head(rest) = SP THEN Tail(rest) ELSE rest

RECURSIVE Payload(_, _)
\* the payloads of the lines that begin with data:, each followed by the
\* newline that joins it to the next; trimmed tells whether a line is looked
\* at without its leading and trailing white space
Payload(lines, trimmed) ==
  IF lines = <<>> THEN <<>>
  ELSE LET l == IF trimmed THEN Trim(Head(lines)) ELSE Head(lines)
           rest == Payload(Tail(lines), trimmed)
       IN IF Len(l) >= 2 /\ SubSeq(l, 1, 2) = <<DATA, COLON>>
          THEN IF rest = <<>> THEN <<AfterPrefix(l), <<>>>> ELSE <<AfterPrefix(l)>> \o rest
          ELSE rest

RECURSIVE Glue(_)
\* pieces, the last of which is the empty end marker, with a newline
\* between every two
Glue(pieces) ==
  IF Len(pieces) <= 1 THEN <<>>
  ELSE IF Len(pieces) = 2 THEN pieces[1]
  ELSE pieces[1] \o <<LF>> \o Glue(Tail(pieces))

\* C24 as stated: the text handed to JSON.parse is built from the lines of
\* the segment that begin with data: as they stand in the segment, a line
\* with white space before data: contributing nothing.
C24_Original ==
  \A i \in Calls :
    AtPart(i) =>
      JsonText(Head(call[i].parts)) = Glue(Payload(SplitLines(Head(call[i].parts)), FALSE))

\* C24 amended: the text handed to JSON.parse is built from the lines of
\* the segment that begin with data: once their leading and trailing white
\* space is removed; each contributes what follows the prefix and at most
\* one space, and the contributions are joined with newlines in the order
\* of the lines.
C24_PayloadReconstruction ==
  \A i \in Calls :
    AtPart(i) =>
      JsonText(Head(call[i].parts)) = Glue(Payload(SplitLines(Head(call[i].parts)), TRUE))

\* a segment of two data lines, the first one indented, was parsed as the
\* PROGRESS event of the first line
C24_Witness ==
  \E i \in Calls :
    /\ call[i].stream = <<SP, DATA, COLON, "P", LF, DATA, COLON, LF, LF>>
    /\ call[i].pc = "for"
    /\ call[i].parts = <<>>
    /\ events = <<ValueOf("P")>>

\* the step is a click of the user: handleCancel, or a submission
UserStep ==
  \/ Starts
  \/ isLoading /\ ~isLoading' /\ events' = events /\
     \A i \in Calls : call'[i].pc = call[i].pc

\* C25 as stated: while a handleSubmit call runs, a click of the user is
\* handled only when the call is suspended in reader.read().
C25_Original ==
  [][\A i \in Calls : (Live(i) /\ UserStep) => call[i].pc = "read"]_vars

\* C25 amended: while a handleSubmit call runs, a click of the user is
\* handled only when the call is suspended in the fetch, in res.text() of a
\* response without a stream, or in reader.read(), and in none of them once
\* the awaited promise has settled.
C25_SuspensionPoints ==
  [][\A i \in Calls :
       (Live(i) /\ UserStep) =>
         /\ call[i].pc \in {"fetch", "text", "read"}
         /\ call[i].aborted = "no"
         /\ call[i].body # "closed"]_vars

\* the user cancelled while res.text() of a failed response was awaited
C25_Witness ==
  \E i \in Calls :
    /\ call[i].pc = "text"
    /\ call[i].aborted = "user"
    /\ ~isLoading

\* C26: a step in which call i moves, while another call j is in flight,
\* leaves the event list, isLoading and the handle of j as they are; and it
\* never comes to that, a handleSubmit call starting only when every earlier
\* one has returned, and a call that has returned moving only by being
\* started again.
C26_Isolation ==
  [][/\ \A i, j \in Calls :
          (i # j /\ Live(i) /\ Live(j) /\ call'[i] # call[i] /\ call'[j] = call[j]) =>
            /\ events' = events
            /\ isLoading' = isLoading
            /\ abortRef = j => abortRef' = j
     /\ Starts => \A j \in Calls : ~Live(j)
     /\ \A i \in Calls :
          (~Live(i) /\ call'[i] # call[i]) => call'[i].pc = "fetch"
     /\ \A i \in Calls :
          (Live(i) /\ ~Starts /\ (events' # events \/ abortRef' # abortRef)) =>
            call'[i] # call[i]]_vars

\* a later submission is in flight: the card of the earlier generation is
\* gone and the event list holds the one event of the later stream
C26_Witness ==
  /\ ~card.mounted
  /\ call[1].pc = "read"
  /\ call[1].aborted = "no"
  /\ abortRef = 1
  /\ isLoading
  /\ events = <<ValueOf("P")>>

\* C27: one iteration of the for loop, whatever the data: payload of its
\* segment, appends at most one entry to the event list: the parsed value or
\* one parse-failure ERROR event, never both.
C27_OneEntryPerSegment ==
  [][\A i \in Calls :
       AtPart(i) =>
         /\ Len(events') <= Len(events) + 1
         /\ Len(events') = Len(events) + 1 =>
              \/ events'[Len(events')] = ParseFailure("SyntaxError")
              \/ IsParsedEvent(events'[Len(events')])]_vars

\* C28 as stated: while isLoading is false, a step that is not a submission
\* changes neither the event list nor the post list.
C28_Original ==
  [][(~isLoading /\ ~Starts) => events' = events /\ posts' = posts]_vars

\* C28: while isLoading is false, a step that is not a submission never
\* changes the post list, and changes the event list only when a handleSubmit
\* call that has not yet returned returns, appending the single PROGRESS
\* event "Stream aborted."; once every call has returned, both lists stay as
\* they are until the next submission.
C28_Quiescence ==
  [][(~isLoading /\ ~Starts) =>
       /\ posts' = posts
       /\ events' # events =>
            /\ events' = Append(events, StreamAborted)
            /\ \E i \in Calls :
                 /\ call[i].pc = "catch"
                 /\ call[i].aborted # "no"
                 /\ call'[i].pc = "done"]_vars

\* a generation cancelled by the user has returned: its lists are final and
\* a next submission is possible
C28_Witness ==
  /\ ~isLoading
  /\ \A i \in Calls : ~Live(i)
  /\ call[1].pc = "done"
  /\ Len(events) = 3
  /\ events[3] = StreamAborted
  /\ events[1] = ValueOf("G")
  /\ posts = <<"post">>

\* the text the card shows outside edit mode: editedText || post.text
DisplayedText == IF card.editedText # "" THEN card.editedText ELSE CardPost.text

\* C29: while the card is not in edit mode, the text it displays is the text
\* of the last committed version (the original post, the last local save or
\* the last applied server edit).
C29_DisplaysCommitted ==
  (card.mounted /\ ~card.isEditing) => DisplayedText = card.committed

\* a request of the image generator has ended and none is under way
ImgEnded ==
  /\ \E i \in Calls : image.req[i].pc = "done"
  /\ \A i \in Calls : ~ImgLive(i)

\* the response held has success = true
ImgSucceeded == image.response # NoResponse /\ image.response[1].success

\* C30 as stated: error and image are never displayed together; while error
\* is non-null no response with success = true and image data is held; and
\* once a request has ended without such a response, error is non-null and
\* loading is false.
C30_Original ==
  /\ ~(ErrorShown /\ ImageShown)
  /\ image.error # NoError => ~ImageShown
  /\ (ImgEnded /\ ~ImageShown) => (image.error # NoError /\ ~image.loading)

\* C30: error and image are never displayed together; while error is
\* non-null no response with success = true and image data is held; once
\* a request has ended, loading is false and either error is non-null (HTTP
\* non-2xx, success = false, exception, abort) or the response held has
\* success = true, with or without image data, and error is null.
C30_ErrorOrSuccess ==
  /\ ~(ErrorShown /\ ImageShown)
  /\ image.error # NoError => ~ImageShown
  /\ ImgEnded =>
       /\ ~image.loading
       /\ image.error # NoError \/ ImgSucceeded
       /\ ImgSucceeded => image.error = NoError

\* a request that followed a displayed image was cancelled and has returned
C30_Witness ==
  /\ ImgEnded
  /\ ~image.loading
  /\ image.error = << <<"Image generation aborted.">> >>
  /\ image.response = NoResponse
  /\ image.toastMessage = "Image generated"
====
